---- MODULE Spec2Model ----
(* water::ReferenceCountedArray<ObjectClass>: an ordered array of handles   *)
(* to intrusively reference-counted objects.  Every method of the class is  *)
(* an operator from a world (the arrays, the objects' counters and the      *)
(* handles held by the caller) to the world the method leaves behind; an    *)
(* action applies one public method to the current world.                   *)
EXTENDS Integers, Sequences, FiniteSets, TLC

\* ---------------------------------------------------------------- bounds
NumElems == 2      \* number of distinct reference-counted objects
MaxLen   == 3      \* the callers never grow an array beyond this length
MaxTotal == 4      \* nor all the arrays together beyond this many slots
MaxSmall == 2      \* the total of slots when every method is in play
MaxHeld  == 1      \* returned handles a caller keeps at a time
MaxDepth == 1      \* nesting depth of destructors that call back
MaxOrder == 6      \* length of the array whose elements are reordered

Arrays == {"A", "B"}
Callers == {"t1", "t2"}             \* threads that call into array A
Temp   == "T"                       \* the local otherCopy of operator=
AllArrays == Arrays \cup {Temp}
Elems  == 1..NumElems               \* object identities (addresses)
Null   == 0                         \* nullptr
Junk   == -1                        \* an uninitialised slot of the store
Handles == Elems \cup {Null}
Indices == -1..MaxLen               \* index arguments the callers pass
Counts  == {-1, 1, 2, MaxLen + 1}   \* count arguments the callers pass
\* (start, count) arguments of the range calls: everything from below zero,
\* the first slot, one in the middle, a negative count, the first two, past the end
Ranges  == {<<-1, MaxLen + 2>>, <<0, 1>>, <<1, 1>>, <<1, -1>>, <<0, 2>>,
            <<MaxLen, 1>>}
Sizes   == {0, MaxLen + 1}          \* storage sizes the callers reserve
\* (index, index) arguments of swap and move: neighbours both ways, two apart
\* both ways, either one below zero, either one past the end, the same twice
Pairs   == {<<0, 1>>, <<1, 0>>, <<0, 2>>, <<2, 0>>, <<-1, 0>>, <<0, -1>>,
            <<0, MaxLen>>, <<MaxLen, 0>>, <<1, 1>>}

\* (from, to) arguments of move and swap on the reordered array
Moves   == (-1..MaxOrder) \X (-1..MaxOrder)

VARIABLES
    exists,      \* exists[a]: array a is constructed and not yet destroyed
    elements,    \* elements[a]: data.elements, one entry per allocated slot
    numUsed,     \* numUsed[a]
    refCount,    \* refCount[o]: the object's intrusive counter
    life,        \* life[o]: "alive", "destroying" (inside its destructor), "dead"
    deleted,     \* deleted[o]: how many times `delete o` ran
    held,        \* held[o]: ObjectClassPtr handles the caller holds on o
    ub,          \* the program ran into undefined behaviour
    last,        \* the call that has just returned to the caller, or Idle
    running      \* running[t]: how far caller t is inside a call of add

vars == <<exists, elements, numUsed, refCount, life, deleted, held, ub, last,
          running>>

\* the comparators the callers pass: compareElements orders the objects by a
\* key, so that it is a consistent total order with or without equal objects
Keys == {0, 1}
Comparators == [Elems -> Keys]
NoCmp == [o \in Elems |-> 0]

compareElements(cmp, first, second) ==
    IF first \in Elems /\ second \in Elems THEN cmp[first] - cmp[second] ELSE 0

\* ------------------------------------------------------------- the world
NoCall == [op |-> "none", arr |-> "A", idx |-> 0, elem |-> Null, n |-> 0]

\* what the environment decides: the call each object's destructor makes,
\* and whether a decrement through a dangling pointer reports zero
NoEnv == [dtor |-> [o \in Elems |-> NoCall], uaf |-> FALSE]

World ==
    [exists   |-> [a \in AllArrays |-> IF a \in Arrays THEN exists[a] ELSE FALSE],
     elements |-> [a \in AllArrays |-> IF a \in Arrays THEN elements[a] ELSE <<>>],
     numUsed  |-> [a \in AllArrays |-> IF a \in Arrays THEN numUsed[a] ELSE 0],
     gen      |-> [a \in AllArrays |-> 0],
     refCount |-> refCount,
     life     |-> life,
     deleted  |-> deleted,
     held     |-> held,
     ub       |-> ub,
     ret      |-> Null,
     result   |-> 0,
     caught   |-> {}]

Max(x, y) == IF x >= y THEN x ELSE y
Min(x, y) == IF x <= y THEN x ELSE y

\* ------------------------------------------------ helpers of the library
isPositiveAndBelow(v, upper) == v >= 0 /\ v < upper

jlimit(lo, hi, v) == IF v < lo THEN lo ELSE IF hi < v THEN hi ELSE v

\* ------------------------------------------ ArrayAllocationBase (data)
numAllocated(w, a) == Len(w.elements[a])

setAllocatedSize(w, a, n) ==
    LET old == w.elements[a] IN
    IF n = Len(old) THEN w
    ELSE [w EXCEPT !.elements[a] =
                       [k \in 1..n |-> IF k <= Len(old) THEN old[k] ELSE Junk],
                   !.gen[a] = @ + 1]

ensureAllocatedSize(w, a, minNumElements) ==
    IF minNumElements > numAllocated(w, a)
    THEN setAllocatedSize(w, a, Max(2 * numAllocated(w, a), minNumElements))
    ELSE w

shrinkToNoMoreThan(w, a, maxNumElements) ==
    IF maxNumElements >= 0 /\ maxNumElements < numAllocated(w, a)
    THEN setAllocatedSize(w, a, maxNumElements)
    ELSE w

\* data.elements [i] read and written; outside the store it is undefined
ReadSlot(w, a, i) ==
    IF i >= 0 /\ i < numAllocated(w, a) THEN w.elements[a][i + 1] ELSE Junk

WriteSlot(w, a, i, v) ==
    IF i >= 0 /\ i < numAllocated(w, a)
    THEN [w EXCEPT !.elements[a][i + 1] = v]
    ELSE [w EXCEPT !.ub = TRUE]

\* memmove (data.elements + dst, data.elements + src, n slots) through a
\* pointer taken when the store had generation g
memmove(w, a, dst, src, n, g) ==
    IF dst < 0 \/ src < 0 \/ dst + n > numAllocated(w, a)
         \/ src + n > numAllocated(w, a) \/ g # w.gen[a]
    THEN [w EXCEPT !.ub = TRUE]
    ELSE LET old == w.elements[a] IN
         [w EXCEPT !.elements[a] =
              [k \in 1..Len(old) |->
                  IF k >= dst + 1 /\ k <= dst + n THEN old[k - dst + src]
                  ELSE old[k]]]

\* -------------------------------------------- ReferenceCountedObject
incReferenceCount(w, o) ==
    IF w.life[o] = "dead" THEN [w EXCEPT !.ub = TRUE]
    ELSE [w EXCEPT !.refCount[o] = @ + 1]

decReferenceCountWithoutDeleting(w, o) == [w EXCEPT !.refCount[o] = @ - 1]

RECURSIVE Apply(_, _, _, _)

\* the arrays that hold o in a slot below numUsed
holders(w, o) ==
    {a \in AllArrays :
        w.exists[a] /\ \E i \in 0..(w.numUsed[a] - 1) : ReadSlot(w, a, i) = o}

\* delete o: the destructor runs (and may call back), then o is gone; caught
\* notes the arrays that still hold o in a slot when its destructor starts
Delete(w, o, env, d) ==
    IF w.life[o] # "alive"
    THEN [w EXCEPT !.ub = TRUE, !.deleted[o] = @ + 1]
    ELSE LET w1 == [w EXCEPT !.life[o] = "destroying",
                             !.caught = @ \cup {<<a, o>> : a \in holders(w, o)}]
             w2 == IF d > 0 /\ env.dtor[o].op # "none"
                   THEN Apply(w1, env.dtor[o], env, d - 1)
                   ELSE w1
         IN [w2 EXCEPT !.life[o] = "dead", !.deleted[o] = @ + 1]

\* ReferenceCountedObject::decReferenceCount, used by ObjectClassPtr
decReferenceCount(w, o, env, d) ==
    IF w.life[o] = "dead"
    THEN IF env.uaf THEN [w EXCEPT !.ub = TRUE, !.deleted[o] = @ + 1]
                    ELSE [w EXCEPT !.ub = TRUE]
    ELSE LET w1 == decReferenceCountWithoutDeleting(w, o) IN
         IF w1.refCount[o] = 0 THEN Delete(w1, o, env, d) ELSE w1

\* ------------------------------------------- ReferenceCountedArray
\* releaseObject that deletes whatever the decrement reports
releaseObject_DeleteAlways(w, o, env, d) ==
    IF w.life[o] = "dead" THEN [w EXCEPT !.ub = TRUE]
    ELSE Delete(decReferenceCountWithoutDeleting(w, o), o, env, d)

releaseObject(w, o, env, d) ==
    IF w.life[o] = "dead"
    THEN IF env.uaf THEN [w EXCEPT !.ub = TRUE, !.deleted[o] = @ + 1]
                    ELSE [w EXCEPT !.ub = TRUE]
    ELSE LET w1 == decReferenceCountWithoutDeleting(w, o) IN
         IF w1.refCount[o] = 0 THEN Delete(w1, o, env, d) ELSE w1

\* if (ObjectClass* o = <slot value>) releaseObject (o);
releaseIfNotNull(w, o, env, d) ==
    IF o = Null THEN w
    ELSE IF o = Junk THEN [w EXCEPT !.ub = TRUE]
    ELSE releaseObject(w, o, env, d)

\* if (newObject != nullptr) newObject->incReferenceCount();
incIfNotNull(w, o) ==
    IF o = Null THEN w
    ELSE IF o = Junk THEN [w EXCEPT !.ub = TRUE]
    ELSE incReferenceCount(w, o)

size(w, a) == w.numUsed[a]

minimiseStorageOverheads(w, a) == shrinkToNoMoreThan(w, a, w.numUsed[a])

ensureStorageAllocated(w, a, minNumElements) ==
    ensureAllocatedSize(w, a, minNumElements)

\* add that forgets the new object's reference
add_NoInc(w, a, newObject) ==
    LET w1 == ensureAllocatedSize(w, a, w.numUsed[a] + 1)
        w2 == WriteSlot(w1, a, w1.numUsed[a], newObject)
    IN [w2 EXCEPT !.numUsed[a] = @ + 1]

\* add that does not grow the store
add_NoGrow(w, a, newObject) ==
    LET w2 == WriteSlot(w, a, w.numUsed[a], newObject)
        w3 == [w2 EXCEPT !.numUsed[a] = @ + 1]
    IN incIfNotNull(w3, newObject)

add(w, a, newObject) ==
    LET w1 == ensureAllocatedSize(w, a, w.numUsed[a] + 1)
        w2 == WriteSlot(w1, a, w1.numUsed[a], newObject)
        w3 == [w2 EXCEPT !.numUsed[a] = @ + 1]
    IN incIfNotNull(w3, newObject)

\* insert that does not move the tail
insert_NoShift(w, a, indexToInsertAt, newObject) ==
    IF indexToInsertAt < 0 THEN add(w, a, newObject)
    ELSE LET index == IF indexToInsertAt > w.numUsed[a] THEN w.numUsed[a]
                      ELSE indexToInsertAt
             w1 == ensureAllocatedSize(w, a, w.numUsed[a] + 1)
             w3 == WriteSlot(w1, a, index, newObject)
             w4 == incIfNotNull(w3, newObject)
         IN [w4 EXCEPT !.numUsed[a] = @ + 1]

insert(w, a, indexToInsertAt, newObject) ==
    IF indexToInsertAt < 0 THEN add(w, a, newObject)
    ELSE LET index == IF indexToInsertAt > w.numUsed[a] THEN w.numUsed[a]
                      ELSE indexToInsertAt
             w1 == ensureAllocatedSize(w, a, w.numUsed[a] + 1)
             numToMove == w1.numUsed[a] - index
             w2 == IF numToMove > 0
                   THEN memmove(w1, a, index + 1, index, numToMove, w1.gen[a])
                   ELSE w1
             w3 == WriteSlot(w2, a, index, newObject)
             w4 == incIfNotNull(w3, newObject)
         IN [w4 EXCEPT !.numUsed[a] = @ + 1]

\* set that honours an index beyond the end
set_AtIndex(w, a, indexToChange, newObject, env, d) ==
    IF indexToChange >= 0
    THEN LET w1 == incIfNotNull(w, newObject) IN
         IF indexToChange < w1.numUsed[a]
         THEN LET o  == ReadSlot(w1, a, indexToChange)
                  w2 == releaseIfNotNull(w1, o, env, d)
              IN WriteSlot(w2, a, indexToChange, newObject)
         ELSE LET w2 == ensureAllocatedSize(w1, a, indexToChange + 1)
                  w3 == WriteSlot(w2, a, indexToChange, newObject)
              IN [w3 EXCEPT !.numUsed[a] = indexToChange + 1]
    ELSE w

\* set that lets go of the previous occupant before it counts the new one
set_ReleaseFirst(w, a, indexToChange, newObject, env, d) ==
    IF indexToChange >= 0
    THEN IF indexToChange < w.numUsed[a]
         THEN LET o == ReadSlot(w, a, indexToChange) IN
              WriteSlot(incIfNotNull(releaseIfNotNull(w, o, env, d), newObject),
                        a, indexToChange, newObject)
         ELSE LET w1 == incIfNotNull(w, newObject)
                  w2 == ensureAllocatedSize(w1, a, w1.numUsed[a] + 1)
                  w3 == WriteSlot(w2, a, w2.numUsed[a], newObject)
              IN [w3 EXCEPT !.numUsed[a] = @ + 1]
    ELSE w

set(w, a, indexToChange, newObject, env, d) ==
    IF indexToChange >= 0
    THEN LET w1 == incIfNotNull(w, newObject) IN
         IF indexToChange < w1.numUsed[a]
         THEN LET o  == ReadSlot(w1, a, indexToChange)
                  w2 == releaseIfNotNull(w1, o, env, d)
              IN WriteSlot(w2, a, indexToChange, newObject)
         ELSE LET w2 == ensureAllocatedSize(w1, a, w1.numUsed[a] + 1)
                  w3 == WriteSlot(w2, a, w2.numUsed[a], newObject)
              IN [w3 EXCEPT !.numUsed[a] = @ + 1]
    ELSE w

\* the rest of remove without the shrinking of the store
removeShift_NoShrink(w, a, indexToRemove, g) ==
    LET w2 == [w EXCEPT !.numUsed[a] = @ - 1]
        numberToShift == w2.numUsed[a] - indexToRemove
    IN IF numberToShift > 0
       THEN memmove(w2, a, indexToRemove, indexToRemove + 1, numberToShift, g)
       ELSE w2

\* the rest of remove: --numUsed, the tail moves down, the store may shrink
removeShift(w, a, indexToRemove, g) ==
    LET w2 == [w EXCEPT !.numUsed[a] = @ - 1]
        numberToShift == w2.numUsed[a] - indexToRemove
        w3 == IF numberToShift > 0
              THEN memmove(w2, a, indexToRemove, indexToRemove + 1,
                           numberToShift, g)
              ELSE w2
    IN IF 2 * w3.numUsed[a] < numAllocated(w3, a)
       THEN minimiseStorageOverheads(w3, a)
       ELSE w3

remove(w, a, indexToRemove, env, d) ==
    IF isPositiveAndBelow(indexToRemove, w.numUsed[a])
    THEN LET g  == w.gen[a]
             o  == ReadSlot(w, a, indexToRemove)
         IN removeShift(releaseIfNotNull(w, o, env, d), a, indexToRemove, g)
    ELSE w

\* removeAndReturn whose result is a raw pointer that counts nothing
removeAndReturn_Raw(w, a, indexToRemove, env, d) ==
    IF isPositiveAndBelow(indexToRemove, w.numUsed[a])
    THEN LET g  == w.gen[a]
             o  == ReadSlot(w, a, indexToRemove)
             w0 == [w EXCEPT !.ret = IF o = Junk THEN Null ELSE o]
         IN removeShift(releaseIfNotNull(w0, o, env, d), a, indexToRemove, g)
    ELSE [w EXCEPT !.ret = Null]

\* the returned ObjectClassPtr is w.ret; it counts one reference
removeAndReturn(w, a, indexToRemove, env, d) ==
    IF isPositiveAndBelow(indexToRemove, w.numUsed[a])
    THEN LET g  == w.gen[a]
             o  == ReadSlot(w, a, indexToRemove)
             w0 == IF o = Null THEN [w EXCEPT !.ret = Null]
                   ELSE IF o = Junk THEN [w EXCEPT !.ub = TRUE, !.ret = Null]
                   ELSE [incReferenceCount(w, o) EXCEPT !.ret = o]
         IN removeShift(releaseIfNotNull(w0, o, env, d), a, indexToRemove, g)
    ELSE [w EXCEPT !.ret = Null]

RECURSIVE removeRangeLoop(_, _, _, _, _, _)
removeRangeLoop(w, a, i, endIndex, env, d) ==
    IF i < endIndex
    THEN LET o  == ReadSlot(w, a, i)
             w1 == IF o = Null THEN w
                   ELSE IF o = Junk THEN [w EXCEPT !.ub = TRUE]
                   ELSE WriteSlot(releaseObject(w, o, env, d), a, i, Null)
         IN removeRangeLoop(w1, a, i + 1, endIndex, env, d)
    ELSE w

\* the rest of removeRange: the tail moves down over the range, numUsed
\* drops by its size, the store may shrink
removeRangeShift(w, a, start, endIndex) ==
    LET rangeSize == endIndex - start
        i  == w.numUsed[a] - endIndex
        w2 == [w EXCEPT !.numUsed[a] = @ - rangeSize]
        w3 == IF i > 0
              THEN memmove(w2, a, start, start + rangeSize, i, w2.gen[a])
              ELSE w2
    IN IF 2 * w3.numUsed[a] < numAllocated(w3, a)
       THEN minimiseStorageOverheads(w3, a)
       ELSE w3

\* removeRange that takes the end of the range as given
removeRange_NoClamp(w, a, startIndex, numberToRemove, env, d) ==
    LET start    == jlimit(0, w.numUsed[a], startIndex)
        endIndex == startIndex + numberToRemove
    IN IF endIndex > start
       THEN removeRangeShift(removeRangeLoop(w, a, start, endIndex, env, d),
                             a, start, endIndex)
       ELSE w

removeRange(w, a, startIndex, numberToRemove, env, d) ==
    LET start    == jlimit(0, w.numUsed[a], startIndex)
        endIndex == jlimit(0, w.numUsed[a], startIndex + numberToRemove)
    IN IF endIndex > start
       THEN removeRangeShift(removeRangeLoop(w, a, start, endIndex, env, d),
                             a, start, endIndex)
       ELSE w

RECURSIVE removeLastLoop(_, _, _, _, _)
removeLastLoop(w, a, howManyToRemove, env, d) ==
    IF howManyToRemove - 1 >= 0
    THEN removeLastLoop(remove(w, a, w.numUsed[a] - 1, env, d), a,
                        howManyToRemove - 1, env, d)
    ELSE w

removeLast(w, a, howManyToRemove, env, d) ==
    removeLastLoop(w, a, Min(howManyToRemove, w.numUsed[a]), env, d)

\* releaseAllObjects that only resets the length
releaseAllObjects_Forget(w, a, env, d) == [w EXCEPT !.numUsed[a] = 0]

\* releaseAllObjects that lowers the length after the release
RECURSIVE releaseAllObjects_ReleaseFirst(_, _, _, _)
releaseAllObjects_ReleaseFirst(w, a, env, d) ==
    IF w.numUsed[a] > 0
    THEN releaseAllObjects_ReleaseFirst(
             [releaseIfNotNull(w, ReadSlot(w, a, w.numUsed[a] - 1), env, d)
                 EXCEPT !.numUsed[a] = @ - 1], a, env, d)
    ELSE w

RECURSIVE releaseAllObjects(_, _, _, _)
releaseAllObjects(w, a, env, d) ==
    IF w.numUsed[a] > 0
    THEN LET w1 == [w EXCEPT !.numUsed[a] = @ - 1]
             o  == ReadSlot(w1, a, w1.numUsed[a])
         IN releaseAllObjects(releaseIfNotNull(w1, o, env, d), a, env, d)
    ELSE w

clear(w, a, env, d) == setAllocatedSize(releaseAllObjects(w, a, env, d), a, 0)

\* clearQuick that gives the store back as clear does
clearQuick_Free(w, a, env, d) ==
    setAllocatedSize(releaseAllObjects(w, a, env, d), a, 0)

clearQuick(w, a, env, d) == releaseAllObjects(w, a, env, d)

\* swapWith that exchanges the stores and forgets the lengths
swapWith_KeepLengths(w, a, otherArray) ==
    [w EXCEPT !.elements[a] = w.elements[otherArray],
              !.elements[otherArray] = w.elements[a],
              !.gen[a] = @ + 1,
              !.gen[otherArray] = w.gen[otherArray] + 1]

swapWith(w, a, otherArray) ==
    [w EXCEPT !.elements[a] = w.elements[otherArray],
              !.elements[otherArray] = w.elements[a],
              !.gen[a] = @ + 1,
              !.gen[otherArray] = w.gen[otherArray] + 1,
              !.numUsed[a] = w.numUsed[otherArray],
              !.numUsed[otherArray] = w.numUsed[a]]

\* the raw pointer at the index, or nullptr out of range
getObjectPointer(w, a, index) ==
    IF isPositiveAndBelow(index, w.numUsed[a]) THEN ReadSlot(w, a, index)
    ELSE Null

\* ObjectClassPtr (o): the handle a method returns counts one reference
returnHandle(w, o) ==
    [incIfNotNull(w, o) EXCEPT !.ret = IF o = Junk THEN Null ELSE o]

\* operator[] (index)
operatorIndex(w, a, index) == returnHandle(w, getObjectPointer(w, a, index))

getFirst(w, a) ==
    IF w.numUsed[a] > 0 THEN returnHandle(w, ReadSlot(w, a, 0))
    ELSE returnHandle(w, Null)

getLast(w, a) ==
    IF w.numUsed[a] > 0 THEN returnHandle(w, ReadSlot(w, a, w.numUsed[a] - 1))
    ELSE returnHandle(w, Null)

\* swap that checks only its first index
swap_FirstOnly(w, a, index1, index2) ==
    IF isPositiveAndBelow(index1, w.numUsed[a])
    THEN WriteSlot(WriteSlot(w, a, index1, ReadSlot(w, a, index2)),
                   a, index2, ReadSlot(w, a, index1))
    ELSE w

swap(w, a, index1, index2) ==
    IF isPositiveAndBelow(index1, w.numUsed[a])
         /\ isPositiveAndBelow(index2, w.numUsed[a])
    THEN WriteSlot(WriteSlot(w, a, index1, ReadSlot(w, a, index2)),
                   a, index2, ReadSlot(w, a, index1))
    ELSE w

\* move that does not bring an out-of-range target back to the last index
move_NoClamp(w, a, currentIndex, newIndex0) ==
    IF currentIndex # newIndex0 /\ isPositiveAndBelow(currentIndex, w.numUsed[a])
    THEN LET newIndex == newIndex0
             value == ReadSlot(w, a, currentIndex)
             w1 == IF newIndex > currentIndex
                   THEN memmove(w, a, currentIndex, currentIndex + 1,
                                newIndex - currentIndex, w.gen[a])
                   ELSE memmove(w, a, newIndex + 1, newIndex,
                                currentIndex - newIndex, w.gen[a])
         IN WriteSlot(w1, a, newIndex, value)
    ELSE w

move(w, a, currentIndex, newIndex0) ==
    IF currentIndex # newIndex0 /\ isPositiveAndBelow(currentIndex, w.numUsed[a])
    THEN LET newIndex == IF ~isPositiveAndBelow(newIndex0, w.numUsed[a])
                         THEN w.numUsed[a] - 1 ELSE newIndex0
             value == ReadSlot(w, a, currentIndex)
             w1 == IF newIndex > currentIndex
                   THEN memmove(w, a, currentIndex, currentIndex + 1,
                                newIndex - currentIndex, w.gen[a])
                   ELSE memmove(w, a, newIndex + 1, newIndex,
                                currentIndex - newIndex, w.gen[a])
         IN WriteSlot(w1, a, newIndex, value)
    ELSE w

\* indexOf: the first slot below numUsed that holds the pointer, or -1
RECURSIVE indexOfLoop(_, _, _, _)
indexOfLoop(w, a, objectToLookFor, e) ==
    IF e # w.numUsed[a]
    THEN IF objectToLookFor = ReadSlot(w, a, e) THEN e
         ELSE indexOfLoop(w, a, objectToLookFor, e + 1)
    ELSE -1

indexOf_Last(w, a, objectToLookFor) ==
    LET S == {i \in 0..(w.numUsed[a] - 1) : ReadSlot(w, a, i) = objectToLookFor}
    IN IF S = {} THEN -1 ELSE CHOOSE i \in S : \A j \in S : j <= i

indexOf(w, a, objectToLookFor) == indexOfLoop(w, a, objectToLookFor, 0)

\* contains: whether a slot below numUsed holds the pointer
RECURSIVE containsLoop(_, _, _, _)
containsLoop(w, a, objectToLookFor, e) ==
    IF e # w.numUsed[a]
    THEN IF objectToLookFor = ReadSlot(w, a, e) THEN TRUE
         ELSE containsLoop(w, a, objectToLookFor, e + 1)
    ELSE FALSE

contains(w, a, objectToLookFor) == containsLoop(w, a, objectToLookFor, 0)

addIfNotAlreadyThere_Always(w, a, newObject) ==
    [add(w, a, newObject) EXCEPT !.result = 1]

\* addIfNotAlreadyThere: false when contains (newObject), else add and true
addIfNotAlreadyThere(w, a, newObject) ==
    IF contains(w, a, newObject) THEN [w EXCEPT !.result = 0]
    ELSE [add(w, a, newObject) EXCEPT !.result = 1]

\* removeObject: remove (indexOf (objectToRemove))
removeObject(w, a, objectToRemove, env, d) ==
    remove(w, a, indexOf(w, a, objectToRemove), env, d)

\* operator==: the loop runs i from numUsed - 1 down to 0
RECURSIVE operatorEqualsLoop(_, _, _, _)
operatorEqualsLoop(w, a, other, i) ==
    IF i - 1 >= 0
    THEN IF ReadSlot(w, a, i - 1) # ReadSlot(w, other, i - 1) THEN FALSE
         ELSE operatorEqualsLoop(w, a, other, i - 1)
    ELSE TRUE

operatorEquals_LengthOnly(w, a, other) == w.numUsed[a] = w.numUsed[other]

operatorEquals(w, a, other) ==
    IF w.numUsed[a] # w.numUsed[other] THEN FALSE
    ELSE operatorEqualsLoop(w, a, other, w.numUsed[a])

operatorNotEquals(w, a, other) == ~operatorEquals(w, a, other)

\* ReferenceCountedArray(): numUsed (0), an empty store
Constructor(w, a) ==
    [w EXCEPT !.exists[a] = TRUE, !.elements[a] = <<>>, !.numUsed[a] = 0]

RECURSIVE copyIncLoop(_, _, _)
copyIncLoop(w, a, i) ==
    IF i - 1 >= 0
    THEN copyIncLoop(incIfNotNull(w, ReadSlot(w, a, i - 1)), a, i - 1)
    ELSE w

\* a copy that takes the handles without counting them
CopyConstructor_NoInc(w, a, other) ==
    LET w0 == Constructor(w, a)
        w1 == [w0 EXCEPT !.numUsed[a] = size(w0, other)]
        w2 == setAllocatedSize(w1, a, w1.numUsed[a])
    IN [w2 EXCEPT !.elements[a] =
           [k \in 1..Len(w2.elements[a]) |-> ReadSlot(w2, other, k - 1)]]

\* ReferenceCountedArray (const ReferenceCountedArray& other)
CopyConstructor(w, a, other) ==
    LET w0 == Constructor(w, a)
        w1 == [w0 EXCEPT !.numUsed[a] = size(w0, other)]
        w2 == setAllocatedSize(w1, a, w1.numUsed[a])
        w3 == [w2 EXCEPT !.elements[a] =
                  [k \in 1..Len(w2.elements[a]) |->
                      IF k <= w2.numUsed[a] THEN ReadSlot(w2, other, k - 1)
                      ELSE w2.elements[a][k]]]
    IN copyIncLoop(w3, a, w3.numUsed[a])

\* ~ReferenceCountedArray(), then the store's own destructor
Destructor(w, a, env, d) ==
    LET w1 == releaseAllObjects(w, a, env, d) IN
    [w1 EXCEPT !.exists[a] = FALSE, !.elements[a] = <<>>, !.gen[a] = @ + 1]

\* operator= that lets the old contents go without releasing them
assign_KeepOld(w, a, other, env, d) ==
    LET w1 == CopyConstructor(w, Temp, other)
        w2 == swapWith(w1, a, Temp)
    IN [w2 EXCEPT !.exists[Temp] = FALSE, !.elements[Temp] = <<>>,
                  !.numUsed[Temp] = 0]

\* operator= (const ReferenceCountedArray& other)
assign(w, a, other, env, d) ==
    LET w1 == CopyConstructor(w, Temp, other)
        w2 == swapWith(w1, a, Temp)
    IN Destructor(w2, Temp, env, d)

\* getUnchecked (index): a temporary ObjectClassPtr around the slot's value
RECURSIVE addArrayLoop(_, _, _, _, _, _, _)
addArrayLoop(w, a, arrayToAddFrom, startIndex, numElementsToAdd, env, d) ==
    IF numElementsToAdd - 1 >= 0
    THEN LET o  == ReadSlot(w, arrayToAddFrom, startIndex)
             w1 == incIfNotNull(w, o)
             w2 == add(w1, a, o)
             w3 == IF o \in Elems THEN decReferenceCount(w2, o, env, d) ELSE w2
         IN addArrayLoop(w3, a, arrayToAddFrom, startIndex + 1,
                         numElementsToAdd - 1, env, d)
    ELSE w

addArray_FromStart(w, a, arrayToAddFrom, startIndex0, numElementsToAdd0, env, d) ==
    LET numElementsToAdd ==
            IF numElementsToAdd0 < 0
                 \/ numElementsToAdd0 > size(w, arrayToAddFrom)
            THEN size(w, arrayToAddFrom)
            ELSE numElementsToAdd0
    IN IF numElementsToAdd > 0
       THEN addArrayLoop(ensureAllocatedSize(w, a, w.numUsed[a] + numElementsToAdd),
                         a, arrayToAddFrom, 0, numElementsToAdd, env, d)
       ELSE w

addArray(w, a, arrayToAddFrom, startIndex0, numElementsToAdd0, env, d) ==
    LET startIndex == IF startIndex0 < 0 THEN 0 ELSE startIndex0
        numElementsToAdd ==
            IF numElementsToAdd0 < 0
                 \/ startIndex + numElementsToAdd0 > size(w, arrayToAddFrom)
            THEN size(w, arrayToAddFrom) - startIndex
            ELSE numElementsToAdd0
    IN IF numElementsToAdd > 0
       THEN addArrayLoop(ensureAllocatedSize(w, a, w.numUsed[a] + numElementsToAdd),
                         a, arrayToAddFrom, startIndex, numElementsToAdd, env, d)
       ELSE w

\* ------------------------------------------------ sorted operations
\* the insertion point of newElement in the sorted slots [firstElement,
\* lastElement): found by bisection, behind the elements that compare equal
RECURSIVE findInsertIndexInSortedArray(_, _, _, _, _, _)
findInsertIndexInSortedArray(w, a, cmp, newElement, firstElement, lastElement) ==
    IF firstElement < lastElement
    THEN LET halfway == (firstElement + lastElement) \div 2 IN
         IF compareElements(cmp, newElement, ReadSlot(w, a, halfway)) >= 0
         THEN findInsertIndexInSortedArray(w, a, cmp, newElement,
                                           halfway + 1, lastElement)
         ELSE findInsertIndexInSortedArray(w, a, cmp, newElement,
                                           firstElement, halfway)
    ELSE firstElement

\* addSorted that appends
addSorted_Append(w, a, cmp, newObject) ==
    [insert(w, a, w.numUsed[a], newObject) EXCEPT !.result = w.numUsed[a]]

addSorted(w, a, cmp, newObject) ==
    LET index == findInsertIndexInSortedArray(w, a, cmp, newObject, 0,
                                              w.numUsed[a])
    IN [insert(w, a, index, newObject) EXCEPT !.result = index]

\* addOrReplaceSorted that never replaces
addOrReplaceSorted_AlwaysInsert(w, a, cmp, newObject, env, d) ==
    LET index == findInsertIndexInSortedArray(w, a, cmp, newObject, 0,
                                              w.numUsed[a])
    IN insert(w, a, index, newObject)

addOrReplaceSorted(w, a, cmp, newObject, env, d) ==
    LET index == findInsertIndexInSortedArray(w, a, cmp, newObject, 0,
                                              w.numUsed[a])
    IN IF index > 0
            /\ compareElements(cmp, newObject, ReadSlot(w, a, index - 1)) = 0
       THEN set(w, a, index - 1, newObject, env, d)
       ELSE insert(w, a, index, newObject)

\* the loop of indexOfSorted that goes right only past a smaller element
RECURSIVE indexOfSortedLoop_Strict(_, _, _, _, _, _)
indexOfSortedLoop_Strict(w, a, cmp, objectToLookFor, s, e) ==
    IF s < e
    THEN IF compareElements(cmp, objectToLookFor, ReadSlot(w, a, s)) = 0
         THEN s
         ELSE LET halfway == (s + e) \div 2 IN
              IF halfway = s THEN -1
              ELSE IF compareElements(cmp, objectToLookFor,
                                      ReadSlot(w, a, halfway)) > 0
                   THEN indexOfSortedLoop_Strict(w, a, cmp, objectToLookFor,
                                                 halfway, e)
                   ELSE indexOfSortedLoop_Strict(w, a, cmp, objectToLookFor,
                                                 s, halfway)
    ELSE -1

\* while (s < e) of indexOfSorted
RECURSIVE indexOfSortedLoop(_, _, _, _, _, _)
indexOfSortedLoop(w, a, cmp, objectToLookFor, s, e) ==
    IF s < e
    THEN IF compareElements(cmp, objectToLookFor, ReadSlot(w, a, s)) = 0
         THEN s
         ELSE LET halfway == (s + e) \div 2 IN
              IF halfway = s THEN -1
              ELSE IF compareElements(cmp, objectToLookFor,
                                      ReadSlot(w, a, halfway)) >= 0
                   THEN indexOfSortedLoop(w, a, cmp, objectToLookFor, halfway, e)
                   ELSE indexOfSortedLoop(w, a, cmp, objectToLookFor, s, halfway)
    ELSE -1

indexOfSorted(w, a, cmp, objectToLookFor) ==
    indexOfSortedLoop(w, a, cmp, objectToLookFor, 0, w.numUsed[a])

\* a comparator of any kind: compareElements answers from a table over the
\* pairs of objects, consistent or not, and with onNull for a null pointer
Results == {-1, 0, 1}
AnyComparators == [table : [Elems \X Elems -> Results], onNull : Results]

NoAny == [table |-> [p \in Elems \X Elems |-> 0], onNull |-> 0]

compareAny(cmp, first, second) ==
    IF first \in Elems /\ second \in Elems THEN cmp.table[<<first, second>>]
    ELSE cmp.onNull

\* what a run of indexOfSorted did: its result, the slots it read, the
\* rounds of its loop, and whether every round narrowed [s, e)
NoTrace == [result |-> -1, reads |-> {}, steps |-> 0, shrinks |-> TRUE]

\* the loop of indexOfSorted that looks at the element at e
RECURSIVE indexOfSortedRun_ReadEnd(_, _, _, _, _, _, _)
indexOfSortedRun_ReadEnd(w, a, cmp, objectToLookFor, s, e, t) ==
    IF s < e
    THEN IF compareAny(cmp, objectToLookFor, ReadSlot(w, a, s)) = 0
         THEN [t EXCEPT !.result = s, !.reads = @ \cup {s}, !.steps = @ + 1]
         ELSE LET halfway == (s + e) \div 2 IN
              IF halfway = s
              THEN [t EXCEPT !.reads = @ \cup {s}, !.steps = @ + 1]
              ELSE LET t1 == [t EXCEPT !.reads = @ \cup {s, e},
                                       !.steps = @ + 1] IN
                   IF compareAny(cmp, objectToLookFor, ReadSlot(w, a, e)) >= 0
                   THEN indexOfSortedRun_ReadEnd(w, a, cmp, objectToLookFor,
                                                 halfway, e, t1)
                   ELSE indexOfSortedRun_ReadEnd(w, a, cmp, objectToLookFor,
                                                 s, halfway, t1)
    ELSE t

\* while (s < e) of indexOfSorted, with the slots it reads and its rounds
RECURSIVE indexOfSortedRun(_, _, _, _, _, _, _)
indexOfSortedRun(w, a, cmp, objectToLookFor, s, e, t) ==
    IF s < e
    THEN IF compareAny(cmp, objectToLookFor, ReadSlot(w, a, s)) = 0
         THEN [t EXCEPT !.result = s, !.reads = @ \cup {s}, !.steps = @ + 1]
         ELSE LET halfway == (s + e) \div 2 IN
              IF halfway = s
              THEN [t EXCEPT !.reads = @ \cup {s}, !.steps = @ + 1]
              ELSE LET t1 == [t EXCEPT !.reads = @ \cup {s, halfway},
                                       !.steps = @ + 1] IN
                   IF compareAny(cmp, objectToLookFor, ReadSlot(w, a, halfway)) >= 0
                   THEN indexOfSortedRun(w, a, cmp, objectToLookFor, halfway, e,
                            [t1 EXCEPT !.shrinks = @ /\ e - halfway < e - s])
                   ELSE indexOfSortedRun(w, a, cmp, objectToLookFor, s, halfway,
                            [t1 EXCEPT !.shrinks = @ /\ halfway - s < e - s])
    ELSE t

\* the caller lets go of the handle a call returned to it
dropReturned(w, env, d) ==
    IF w.ret = Null THEN w
    ELSE decReferenceCount([w EXCEPT !.ret = Null], w.ret, env, d)

\* the caller keeps the handle a call returned to it
keepReturned(w) ==
    IF w.ret \in Elems THEN [w EXCEPT !.held[w.ret] = @ + 1] ELSE w

\* a call made from inside a destructor
Apply(w, c, env, d) ==
    CASE c.op = "add"             -> add(w, c.arr, c.elem)
      [] c.op = "set"             -> set(w, c.arr, c.idx, c.elem, env, d)
      [] c.op = "remove"          -> remove(w, c.arr, c.idx, env, d)
      [] c.op = "removeAndReturn" ->
             dropReturned(removeAndReturn(w, c.arr, c.idx, env, d), env, d)
      [] c.op = "removeRange"     -> removeRange(w, c.arr, c.idx, c.n, env, d)
      [] c.op = "removeLast"      -> removeLast(w, c.arr, c.n, env, d)
      [] c.op = "clear"           -> clear(w, c.arr, env, d)
      [] c.op = "clearQuick"      -> clearQuick(w, c.arr, env, d)
      [] OTHER                    -> w

\* ------------------------------------------------------------ the actions
\* the record of a call: the method, its arguments, the call the destructors
\* made meanwhile, the handle a set found in its slot, the comparator and
\* the run of a search, and (filled in when it
\* returns) the length the array had, the objects the call destroyed and the
\* arrays that held an object in a slot when its destructor started
Last(op, a, idx, o, other, n) ==
    [op |-> op, arr |-> a, idx |-> idx, elem |-> o, other |-> other, n |-> n,
     len0 |-> 0, destroyed |-> {}, cb |-> NoCall, result |-> 0, cmp |-> NoCmp,
     prev |-> Null, caught |-> {}, trace |-> NoTrace, any |-> NoAny]

\* a caller that is not inside a call
NotRunning == [pc |-> "idle", newObject |-> Null, index |-> 0]

Idle == Last("idle", "A", 0, Null, "A", 0)

Total(w) == w.numUsed["A"] + w.numUsed["B"]

\* the callers keep the arrays within the bounds
Bounded(w) == Total(w) <= MaxTotal /\ \A a \in Arrays : w.numUsed[a] <= MaxLen

\* the slots of the store above numUsed hold nothing the program reads again
Settled(w, a) ==
    [k \in 1..Len(w.elements[a]) |->
        IF k <= w.numUsed[a] THEN w.elements[a][k] ELSE Junk]

\* the world a method leaves behind becomes the next state, with the record
\* of the call
StateFrom(w) ==
    /\ exists'   = [a \in Arrays |-> w.exists[a]]
    /\ elements' = [a \in Arrays |-> Settled(w, a)]
    /\ numUsed'  = [a \in Arrays |-> w.numUsed[a]]
    /\ refCount' = w.refCount
    /\ life'     = w.life
    /\ deleted'  = w.deleted
    /\ held'     = w.held
    /\ ub'       = w.ub

Becomes(w, l) ==
    /\ StateFrom(w)
    /\ last'     = [l EXCEPT !.len0 = numUsed[l.arr],
                               !.destroyed = {o \in Elems : w.deleted[o] > deleted[o]},
                               !.caught = w.caught]
    /\ running'  = running

\* a method returns to a caller that keeps within the bounds
Commit(w0, l) == \E w \in {w0} : Bounded(w) /\ Becomes(w, l)

\* the pointers a caller can pass: nullptr or an object that is not destroyed
Args == {o \in Handles : o = Null \/ life[o] = "alive"}

Ready == last.op = "idle" /\ ~ub

Live(a) == Ready /\ exists[a]

CanGrow(a) == numUsed[a] < MaxLen /\ numUsed["A"] + numUsed["B"] < MaxTotal

Init ==
    /\ exists   = [a \in Arrays |-> TRUE]
    /\ elements = [a \in Arrays |-> <<>>]
    /\ numUsed  = [a \in Arrays |-> 0]
    /\ refCount = [o \in Elems |-> 0]
    /\ life     = [o \in Elems |-> "alive"]
    /\ deleted  = [o \in Elems |-> 0]
    /\ held     = [o \in Elems |-> 0]
    /\ ub       = FALSE
    /\ last     = Idle
    /\ running  = [t \in Callers |-> NotRunning]

CallConstructor ==
    \E a \in Arrays :
        /\ Ready /\ ~exists[a]
        /\ Commit(Constructor(World, a), Last("Constructor", a, 0, Null, a, 0))

CallCopyConstructor ==
    \E a \in Arrays, other \in Arrays :
        /\ ~exists[a] /\ Live(other)
        /\ Commit(CopyConstructor(World, a, other),
                  Last("CopyConstructor", a, 0, Null, other, 0))

CallDestructor ==
    \E a \in Arrays :
        /\ Live(a)
        /\ Commit(Destructor(World, a, NoEnv, 0),
                  Last("Destructor", a, 0, Null, a, 0))

CallAssign ==
    \E a \in Arrays, other \in Arrays :
        /\ Live(a) /\ Live(other)
        /\ Commit(assign(World, a, other, NoEnv, 0),
                  Last("assign", a, 0, Null, other, 0))

CallAdd ==
    \E a \in Arrays, o \in Args :
        /\ Live(a) /\ CanGrow(a)
        /\ Commit(add(World, a, o), Last("add", a, 0, o, a, 0))

CallInsert ==
    \E a \in Arrays, i \in Indices, o \in Args :
        /\ Live(a) /\ CanGrow(a)
        /\ Commit(insert(World, a, i, o), Last("insert", a, i, o, a, 0))

CallSet ==
    \E a \in Arrays, i \in Indices, o \in Args :
        /\ Live(a) /\ (CanGrow(a) \/ i < numUsed[a])
        /\ Commit(set(World, a, i, o, NoEnv, 0),
                  [Last("set", a, i, o, a, 0)
                     EXCEPT !.prev = IF i >= 0 /\ i < numUsed[a]
                                     THEN elements[a][i + 1] ELSE Null])

CallAddArray ==
    \E a \in Arrays, src \in Arrays, r \in Ranges :
        /\ Live(a) /\ Live(src)
        /\ Commit(addArray(World, a, src, r[1], r[2], NoEnv, 0),
                  Last("addArray", a, r[1], Null, src, r[2]))

RECURSIVE SumHeld(_)
SumHeld(S) == IF S = {} THEN 0
              ELSE LET o == CHOOSE x \in S : TRUE IN held[o] + SumHeld(S \ {o})

HeldTotal == SumHeld(Elems)

CallRemove ==
    \E a \in Arrays, i \in Indices :
        /\ Live(a)
        /\ Commit(remove(World, a, i, NoEnv, 0), Last("remove", a, i, Null, a, 0))

\* the caller keeps the returned handle
CallRemoveAndReturn ==
    \E a \in Arrays, i \in Indices :
        /\ Live(a)
        /\ \E w \in {removeAndReturn(World, a, i, NoEnv, 0)} :
           /\ w.ret \in Elems => HeldTotal < MaxHeld
           /\ Commit(keepReturned(w), Last("removeAndReturn", a, i, w.ret, a, 0))

CallRemoveRange ==
    \E a \in Arrays, r \in Ranges :
        /\ Live(a)
        /\ Commit(removeRange(World, a, r[1], r[2], NoEnv, 0),
                  Last("removeRange", a, r[1], Null, a, r[2]))

CallRemoveLast ==
    \E a \in Arrays, n \in Counts :
        /\ Live(a)
        /\ Commit(removeLast(World, a, n, NoEnv, 0),
                  Last("removeLast", a, 0, Null, a, n))

CallClear ==
    \E a \in Arrays :
        /\ Live(a)
        /\ Commit(clear(World, a, NoEnv, 0), Last("clear", a, 0, Null, a, 0))

CallClearQuick ==
    \E a \in Arrays :
        /\ Live(a)
        /\ Commit(clearQuick(World, a, NoEnv, 0),
                  Last("clearQuick", a, 0, Null, a, 0))

CallSwapWith ==
    \E a \in Arrays, other \in Arrays :
        /\ Live(a) /\ Live(other)
        /\ Commit(swapWith(World, a, other), Last("swapWith", a, 0, Null, other, 0))

CallEnsureStorageAllocated ==
    \E a \in Arrays, n \in Sizes :
        /\ Live(a)
        /\ Commit(ensureStorageAllocated(World, a, n),
                  Last("ensureStorageAllocated", a, 0, Null, a, n))

CallMinimiseStorageOverheads ==
    \E a \in Arrays :
        /\ Live(a)
        /\ Commit(minimiseStorageOverheads(World, a),
                  Last("minimiseStorageOverheads", a, 0, Null, a, 0))

\* the caller keeps the handle operator[] returns
CallOperatorIndex ==
    \E a \in Arrays, i \in Indices :
        /\ Live(a)
        /\ \E w \in {operatorIndex(World, a, i)} :
           /\ w.ret \in Elems => HeldTotal < MaxHeld
           /\ Commit(keepReturned(w), Last("operatorIndex", a, i, w.ret, a, 0))

CallGetFirst ==
    \E a \in Arrays :
        /\ Live(a)
        /\ \E w \in {getFirst(World, a)} :
           /\ w.ret \in Elems => HeldTotal < MaxHeld
           /\ Commit(keepReturned(w), Last("getFirst", a, 0, w.ret, a, 0))

CallGetLast ==
    \E a \in Arrays :
        /\ Live(a)
        /\ \E w \in {getLast(World, a)} :
           /\ w.ret \in Elems => HeldTotal < MaxHeld
           /\ Commit(keepReturned(w), Last("getLast", a, 0, w.ret, a, 0))

CallSwap ==
    \E a \in Arrays, p \in Pairs :
        /\ Live(a)
        /\ Commit(swap(World, a, p[1], p[2]), Last("swap", a, p[1], Null, a, p[2]))

CallMove ==
    \E a \in Arrays, p \in Pairs :
        /\ Live(a)
        /\ Commit(move(World, a, p[1], p[2]), Last("move", a, p[1], Null, a, p[2]))

\* an ObjectClassPtr held by the caller goes out of scope
DropHandle ==
    \E o \in Elems :
        /\ Ready /\ held[o] > 0
        /\ Commit(decReferenceCount([World EXCEPT !.held[o] = @ - 1], o, NoEnv, 0),
                  Last("dropHandle", "A", 0, o, "A", 0))

\* the caller goes on to its next call
Return ==
    /\ last.op # "idle"
    /\ last' = Idle
    /\ UNCHANGED <<exists, elements, numUsed, refCount, life, deleted, held, ub,
                   running>>

Next ==
    \/ CallConstructor
    \/ CallCopyConstructor
    \/ CallDestructor
    \/ CallAssign
    \/ CallAdd
    \/ CallInsert
    \/ CallSet
    \/ CallAddArray
    \/ CallRemove
    \/ CallRemoveAndReturn
    \/ CallRemoveRange
    \/ CallRemoveLast
    \/ CallClear
    \/ CallSwapWith
    \/ DropHandle
    \/ Return

\* two arrays and the methods that pass handles around
Spec == Init /\ [][Next]_vars

\* these and the methods that index, reorder and resize, on arrays that
\* together hold at most MaxSmall slots
NextAll ==
    /\ \/ Next
       \/ CallClearQuick
       \/ CallEnsureStorageAllocated
       \/ CallMinimiseStorageOverheads
       \/ CallOperatorIndex
       \/ CallGetFirst
       \/ CallGetLast
       \/ CallSwap
       \/ CallMove
    /\ numUsed'["A"] + numUsed'["B"] <= MaxSmall

SpecAll == Init /\ [][NextAll]_vars


\* ------------------------------------- one array that is reordered
OrderAdd ==
    \E o \in Args :
        /\ Live("A") /\ numUsed["A"] < MaxOrder
        /\ Becomes(add(World, "A", o), Last("add", "A", 0, o, "A", 0))

OrderSwap ==
    \E p \in Moves :
        /\ Live("A")
        /\ Becomes(swap(World, "A", p[1], p[2]),
                   Last("swap", "A", p[1], Null, "A", p[2]))

OrderMove ==
    \E p \in Moves :
        /\ Live("A")
        /\ Becomes(move(World, "A", p[1], p[2]),
                   Last("move", "A", p[1], Null, "A", p[2]))

NextOrder ==
    \/ OrderAdd
    \/ OrderSwap
    \/ OrderMove
    \/ Return

\* array A filled by add up to MaxOrder slots, then swap and move
SpecOrder == Init /\ [][NextOrder]_vars

\* ------------------------------------- arrays kept sorted
\* the array holds objects only, in the comparator's order
IsSorted(a, cmp) ==
    /\ \A k \in 1..numUsed[a] : elements[a][k] \in Elems
    /\ \A k \in 1..(numUsed[a] - 1) :
          compareElements(cmp, elements[a][k], elements[a][k + 1]) <= 0

Objects == Args \ {Null}

SortedAdd ==
    \E a \in Arrays, o \in Objects, cmp \in Comparators :
        /\ Live(a) /\ CanGrow(a) /\ IsSorted(a, cmp)
        /\ \E w \in {addSorted(World, a, cmp, o)} :
              Commit(w, [Last("addSorted", a, 0, o, a, 0)
                           EXCEPT !.result = w.result, !.cmp = cmp])

SortedAddOrReplace ==
    \E a \in Arrays, o \in Objects, cmp \in Comparators :
        /\ Live(a) /\ CanGrow(a) /\ IsSorted(a, cmp)
        /\ Commit(addOrReplaceSorted(World, a, cmp, o, NoEnv, 0),
                  [Last("addOrReplaceSorted", a, 0, o, a, 0) EXCEPT !.cmp = cmp])

SortedIndexOf ==
    \E a \in Arrays, o \in Objects, cmp \in Comparators :
        /\ Live(a) /\ IsSorted(a, cmp)
        /\ Commit(World, [Last("indexOfSorted", a, 0, o, a, 0)
                            EXCEPT !.result = indexOfSorted(World, a, cmp, o),
                                   !.cmp = cmp])

NextSorted ==
    \/ SortedAdd
    \/ SortedAddOrReplace
    \/ SortedIndexOf
    \/ CallRemove
    \/ Return

\* arrays filled by addSorted and addOrReplaceSorted, searched by indexOfSorted
SpecSorted == Init /\ [][NextSorted]_vars

\* ------------------------------------- arrays searched by pointer
Bit(b) == IF b THEN 1 ELSE 0

CallIndexOf ==
    \E a \in Arrays, o \in Args :
        /\ Live(a)
        /\ Commit(World, [Last("indexOf", a, 0, o, a, 0)
                            EXCEPT !.result = indexOf(World, a, o)])

CallContains ==
    \E a \in Arrays, o \in Args :
        /\ Live(a)
        /\ Commit(World, [Last("contains", a, 0, o, a, 0)
                            EXCEPT !.result = Bit(contains(World, a, o))])

CallAddIfNotAlreadyThere ==
    \E a \in Arrays, o \in Args :
        /\ Live(a)
        /\ \E w \in {addIfNotAlreadyThere(World, a, o)} :
              Commit(w, [Last("addIfNotAlreadyThere", a, 0, o, a, 0)
                           EXCEPT !.result = w.result])

CallRemoveObject ==
    \E a \in Arrays, o \in Args :
        /\ Live(a)
        /\ Commit(removeObject(World, a, o, NoEnv, 0),
                  Last("removeObject", a, 0, o, a, 0))

CallEquals ==
    \E a \in Arrays, other \in Arrays :
        /\ Live(a) /\ Live(other)
        /\ Commit(World, [Last("operator==", a, 0, Null, other, 0)
                            EXCEPT !.result = Bit(operatorEquals(World, a, other))])

CallNotEquals ==
    \E a \in Arrays, other \in Arrays :
        /\ Live(a) /\ Live(other)
        /\ Commit(World, [Last("operator!=", a, 0, Null, other, 0)
                            EXCEPT !.result = Bit(operatorNotEquals(World, a, other))])

NextLookup ==
    \/ CallAdd
    \/ CallAddIfNotAlreadyThere
    \/ CallRemoveObject
    \/ CallIndexOf
    \/ CallContains
    \/ CallEquals
    \/ CallNotEquals
    \/ CallCopyConstructor
    \/ CallDestructor
    \/ Return

\* arrays filled by add and addIfNotAlreadyThere, copied, compared and
\* searched for a pointer
SpecLookup == Init /\ [][NextLookup]_vars

\* ------------------------------------- an array searched with any comparator
SearchAdd ==
    \E o \in Args :
        /\ Live("A") /\ numUsed["A"] < MaxLen
        /\ Becomes(add(World, "A", o), Last("add", "A", 0, o, "A", 0))

SearchIndexOf ==
    \E o \in Args, cmp \in AnyComparators :
        /\ Live("A")
        /\ \E t \in {indexOfSortedRun(World, "A", cmp, o, 0, numUsed["A"], NoTrace)} :
              Becomes(World, [Last("indexOfSorted", "A", 0, o, "A", 0)
                                EXCEPT !.result = t.result, !.trace = t,
                                       !.any = cmp])

NextSearch ==
    \/ SearchAdd
    \/ SearchIndexOf
    \/ Return

\* array A filled by add in any order, nullptr included, then searched by
\* indexOfSorted with comparators that need not be an order
SpecSearch == Init /\ [][NextSearch]_vars

\* ------------------------------------- two callers inside add at once
\* add takes no lock: each caller runs the statements of add one by one
\* data.ensureAllocatedSize (numUsed + 1);
AddEnsure ==
    \E t \in Callers, o \in Args :
        /\ Ready /\ exists["A"] /\ CanGrow("A")
        /\ running[t].pc = "idle"
        /\ StateFrom(ensureAllocatedSize(World, "A", numUsed["A"] + 1))
        /\ running' = [running EXCEPT ![t] =
                          [pc |-> "load", newObject |-> o, index |-> 0]]
        /\ last' = last

\* numUsed++ reads numUsed
AddLoad ==
    \E t \in Callers :
        /\ ~ub /\ running[t].pc = "load"
        /\ running' = [running EXCEPT ![t].pc = "store",
                                      ![t].index = numUsed["A"]]
        /\ UNCHANGED <<exists, elements, numUsed, refCount, life, deleted, held,
                       ub, last>>

\* data.elements [numUsed++] = newObject stores the object and the new length
AddStore ==
    \E t \in Callers :
        /\ ~ub /\ running[t].pc = "store"
        /\ \E w \in {WriteSlot(World, "A", running[t].index,
                                running[t].newObject)} :
              StateFrom([w EXCEPT !.numUsed["A"] = running[t].index + 1])
        /\ running' = [running EXCEPT ![t].pc = "inc"]
        /\ last' = last

\* if (newObject != nullptr) newObject->incReferenceCount(); return
AddInc ==
    \E t \in Callers :
        /\ ~ub /\ running[t].pc = "inc"
        /\ StateFrom(incIfNotNull(World, running[t].newObject))
        /\ running' = [running EXCEPT ![t] = NotRunning]
        /\ last' = last

NextConcurrent ==
    \/ AddEnsure
    \/ AddLoad
    \/ AddStore
    \/ AddInc

\* two callers that add to the same array without waiting for each other
SpecConcurrent == Init /\ [][NextConcurrent]_vars

\* ------------------------------------- destructors that call back
Call(op, idx, o, n) == [op |-> op, arr |-> "A", idx |-> idx, elem |-> o, n |-> n]

\* the calls an object's destructor may make on the array that held it
Callbacks ==
    {NoCall,
     Call("remove", 0, Null, 0),
     Call("removeAndReturn", 0, Null, 0),
     Call("removeRange", 0, Null, 2),
     Call("removeLast", 0, Null, 1),
     Call("clear", 0, Null, 0), Call("clearQuick", 0, Null, 0),
     Call("set", 0, Null, 0), Call("add", 0, Null, 0)}

Envs == {[dtor |-> [o \in Elems |-> c], uaf |-> u] :
            c \in Callbacks, u \in BOOLEAN}

InitRe ==
    /\ exists   = [a \in Arrays |-> a = "A"]
    /\ elements = [a \in Arrays |-> <<>>]
    /\ numUsed  = [a \in Arrays |-> 0]
    /\ refCount = [o \in Elems |-> 0]
    /\ life     = [o \in Elems |-> "alive"]
    /\ deleted  = [o \in Elems |-> 0]
    /\ held     = [o \in Elems |-> 0]
    /\ ub       = FALSE
    /\ last     = Idle
    /\ running  = [t \in Callers |-> NotRunning]

ReSet ==
    \E a \in Arrays, i \in Indices, o \in Args, env \in Envs :
        /\ Live(a) /\ (CanGrow(a) \/ i < numUsed[a])
        /\ Commit(set(World, a, i, o, env, MaxDepth), [Last("set", a, i, o, a, 0) EXCEPT !.cb = env.dtor[1]])

ReRemove ==
    \E a \in Arrays, i \in Indices, env \in Envs :
        /\ Live(a)
        /\ Commit(remove(World, a, i, env, MaxDepth),
                  [Last("remove", a, i, Null, a, 0) EXCEPT !.cb = env.dtor[1]])

ReRemoveAndReturn ==
    \E a \in Arrays, i \in Indices, env \in Envs :
        /\ Live(a)
        /\ \E w \in {removeAndReturn(World, a, i, env, MaxDepth)} :
           /\ w.ret \in Elems => HeldTotal < MaxHeld
           /\ Commit(keepReturned(w),
                     [Last("removeAndReturn", a, i, w.ret, a, 0) EXCEPT !.cb = env.dtor[1]])

ReRemoveRange ==
    \E a \in Arrays, r \in Ranges, env \in Envs :
        /\ Live(a)
        /\ Commit(removeRange(World, a, r[1], r[2], env, MaxDepth),
                  [Last("removeRange", a, r[1], Null, a, r[2]) EXCEPT !.cb = env.dtor[1]])

ReRemoveLast ==
    \E a \in Arrays, n \in Counts, env \in Envs :
        /\ Live(a)
        /\ Commit(removeLast(World, a, n, env, MaxDepth),
                  [Last("removeLast", a, 0, Null, a, n) EXCEPT !.cb = env.dtor[1]])

ReClear ==
    \E a \in Arrays, env \in Envs :
        /\ Live(a)
        /\ Commit(clear(World, a, env, MaxDepth), [Last("clear", a, 0, Null, a, 0) EXCEPT !.cb = env.dtor[1]])

ReClearQuick ==
    \E a \in Arrays, env \in Envs :
        /\ Live(a)
        /\ Commit(clearQuick(World, a, env, MaxDepth),
                  [Last("clearQuick", a, 0, Null, a, 0) EXCEPT !.cb = env.dtor[1]])

ReDestructor ==
    \E a \in Arrays, env \in Envs :
        /\ Live(a)
        /\ Commit(Destructor(World, a, env, MaxDepth),
                  [Last("Destructor", a, 0, Null, a, 0) EXCEPT !.cb = env.dtor[1]])

NextRe ==
    \/ CallAdd
    \/ ReSet
    \/ ReRemove
    \/ ReRemoveAndReturn
    \/ ReRemoveRange
    \/ ReRemoveLast
    \/ ReClear
    \/ ReClearQuick
    \/ ReDestructor
    \/ DropHandle
    \/ Return

\* one array whose objects' destructors call back into it
SpecReentrant == InitRe /\ [][NextRe]_vars

\* ------------------------------------------------------------ properties
\* what an array holds: the slots below numUsed, in order
Used(a) == SubSeq(elements[a], 1, numUsed[a])

\* the same after the step
UsedNext(a) == SubSeq(elements'[a], 1, numUsed'[a])

Count(o, s) == Cardinality({k \in 1..Len(s) : s[k] = o})

\* the number of slots, over all arrays, that hold o
Slots(o) == Count(o, Used("A")) + Count(o, Used("B"))

Mutators == {"add", "insert", "set", "remove"}

\* C1: after every operation size() is the number of slots the array holds
\* (null slots included), and the reference count of every live object that
\* no caller holds a handle to is the number of slots, over all arrays, that
\* hold it.
C1_CountsMatchSlots ==
    /\ \A a \in Arrays :
          numUsed[a] = Cardinality({k \in 1..Len(elements[a]) :
                                        elements[a][k] # Junk})
    /\ \A o \in Elems :
          (life[o] = "alive" /\ held[o] = 0) => refCount[o] = Slots(o)

\* an add/insert/set/remove has left an object in both arrays, twice in one
\* of them, next to a null slot
C1_Witness ==
    /\ last.op \in Mutators
    /\ \E o \in Elems :
          /\ Count(o, Used("A")) >= 1 /\ Count(o, Used("B")) >= 1
          /\ refCount[o] = 3
    /\ \E a \in Arrays : Count(Null, Used(a)) >= 1

\* C2: an object is destroyed at most once and only by the release that
\* brings its count to zero, never while a slot or a caller's handle counts a
\* reference to it; a step lowers an object's count by exactly the number of
\* slots and handles the object left.
C2_Step ==
    \A o \in Elems :
        /\ deleted'[o] <= 1
        /\ ~ub'
        /\ deleted'[o] > deleted[o] =>
              /\ refCount'[o] = 0
              /\ Count(o, UsedNext("A")) + Count(o, UsedNext("B")) = 0
              /\ held'[o] = 0
        /\ refCount[o] - refCount'[o]
              = (Slots(o) + held[o])
                  - (Count(o, UsedNext("A")) + Count(o, UsedNext("B")) + held'[o])

C2_DestroyedOnceAtZero == [][C2_Step]_vars

\* a set or remove destroyed one object while another stays referenced
C2_Witness ==
    /\ last.op \in {"set", "remove"}
    /\ last.destroyed # {}
    /\ \E o \in Elems : life[o] = "alive" /\ refCount[o] >= 2

\* C3: the operation that takes an object out of its last slot, or drops the
\* last handle to it, destroys the object before it returns.
C3_Step ==
    \A o \in Elems :
        (/\ Slots(o) + held[o] > 0
         /\ Count(o, UsedNext("A")) + Count(o, UsedNext("B")) + held'[o] = 0)
        => (life'[o] = "dead" /\ deleted'[o] = 1)

C3_NoLeak == [][C3_Step]_vars

\* clearing or destroying an array destroyed every object it held
C3_Witness ==
    /\ last.op \in {"clear", "Destructor"}
    /\ Cardinality(last.destroyed) = NumElems
    /\ last.len0 >= 2

\* C4: 0 <= length <= capacity in every reachable state.
C4_LengthWithinCapacity ==
    \A a \in Arrays : 0 <= numUsed[a] /\ numUsed[a] <= Len(elements[a])

\* an add has filled the store to its last slot, after the store had grown
C4_Witness ==
    /\ last.op = "add"
    /\ numUsed[last.arr] = Len(elements[last.arr])
    /\ numUsed[last.arr] = 2

One(b) == IF b THEN 1 ELSE 0

Frame == UNCHANGED <<exists, elements, numUsed, refCount, life, deleted, held, ub>>

\* C6: a copy holds the source's handles in the source's order, every object
\* gains one count per slot copied, and a call on one array leaves every
\* other array it was not handed (the source of a copy or of an addArray
\* included) as it was.
C6_Step ==
    /\ last'.op = "CopyConstructor" =>
          LET a == last'.arr
              other == last'.other
          IN /\ UsedNext(a) = Used(other)
             /\ \A o \in Elems :
                   refCount'[o] = refCount[o] + Count(o, Used(other))
             /\ deleted' = deleted
    /\ \A y \in Arrays :
          (/\ last'.op # "idle"
           /\ last'.arr # y
           /\ ~(last'.op = "swapWith" /\ last'.other = y))
          => /\ numUsed'[y] = numUsed[y]
             /\ elements'[y] = elements[y]
             /\ exists'[y] = exists[y]

C6_CopyIsIndependent == [][C6_Step]_vars

\* a copy of two different handles has just been made
C6_Witness ==
    /\ last.op = "CopyConstructor"
    /\ numUsed[last.arr] = 2
    /\ Used(last.arr) = Used(last.other)
    /\ elements[last.arr][1] # elements[last.arr][2]
    /\ \E o \in Elems : refCount[o] = 2

\* C7: after A = B, A holds B's handles in B's order and B is unchanged;
\* every object lost one count per slot it had in A and gained one per slot
\* it has in B, and is destroyed iff it was in A and its count fell to zero;
\* A = A changes no contents and no count and destroys nothing.
C7_Step ==
    last'.op = "assign" =>
        LET a == last'.arr
            other == last'.other
        IN /\ UsedNext(a) = Used(other)
           /\ UsedNext(other) = Used(other)
           /\ other # a => elements'[other] = elements[other]
           /\ \A o \in Elems :
                 /\ refCount'[o] = refCount[o] - Count(o, Used(a))
                                      + Count(o, Used(other))
                 /\ deleted'[o] = deleted[o]
                       + One(Count(o, Used(a)) > 0 /\ refCount'[o] = 0)
           /\ a = other =>
                 (refCount' = refCount /\ life' = life /\ deleted' = deleted)

C7_Assignment == [][C7_Step]_vars

\* an assignment from another array destroyed an object of the old contents
C7_Witness ==
    /\ last.op = "assign"
    /\ last.arr # last.other
    /\ last.destroyed # {}
    /\ numUsed[last.arr] = 2
    /\ last.len0 >= 1

\* C8: removeAndReturn with an index in range removes the slot and hands
\* its handle to the caller without destroying anything: the count is what
\* it was; the object dies when the caller drops that handle as the last
\* reference.  Out of range it returns null and changes nothing.
C8_Step ==
    /\ last'.op = "removeAndReturn" =>
          LET a == last'.arr
              i == last'.idx
          IN IF 0 <= i /\ i < numUsed[a]
             THEN LET o == elements[a][i + 1] IN
                  /\ last'.elem = o
                  /\ UsedNext(a) = SubSeq(Used(a), 1, i)
                                   \o SubSeq(Used(a), i + 2, numUsed[a])
                  /\ refCount' = refCount
                  /\ deleted' = deleted /\ life' = life
                  /\ held' = IF o = Null THEN held
                             ELSE [held EXCEPT ![o] = @ + 1]
             ELSE last'.elem = Null /\ Frame
    /\ last'.op = "dropHandle" =>
          LET o == last'.elem IN
          (deleted'[o] = deleted[o] + 1) <=> (refCount[o] = 1)

C8_RemoveAndReturn == [][C8_Step]_vars

\* the caller holds the only reference to the object it was handed
C8_Witness ==
    /\ last.op = "removeAndReturn"
    /\ last.elem \in Elems
    /\ refCount[last.elem] = 1 /\ held[last.elem] = 1
    /\ life[last.elem] = "alive"
    /\ Slots(last.elem) = 0

\* C9: set with index < 0 changes nothing; with 0 <= index < length it puts
\* the object into that slot, releases the previous occupant once and keeps
\* the length; with index >= length it appends at the old length, the
\* length grows by one and nothing is released.
C9_Step ==
    last'.op = "set" =>
        LET a == last'.arr
            i == last'.idx
            e == last'.elem
            len == numUsed[a]
        IN CASE i < 0 -> Frame
             [] i >= 0 /\ i < len ->
                   LET prev == elements[a][i + 1] IN
                   /\ numUsed'[a] = len
                   /\ UsedNext(a) = [Used(a) EXCEPT ![i + 1] = e]
                   /\ \A o \in Elems :
                         /\ refCount'[o] = refCount[o] + One(o = e) - One(o = prev)
                         /\ deleted'[o] = deleted[o]
                               + One(o = prev /\ refCount'[o] = 0)
             [] i >= len ->
                   /\ numUsed'[a] = len + 1
                   /\ UsedNext(a) = Append(Used(a), e)
                   /\ \A o \in Elems : refCount'[o] = refCount[o] + One(o = e)
                   /\ deleted' = deleted

C9_SetOutcomes == [][C9_Step]_vars

\* a set beyond the end has appended its object at the old length
C9_Witness ==
    /\ last.op = "set"
    /\ last.idx > last.len0
    /\ last.len0 >= 1
    /\ numUsed[last.arr] = last.len0 + 1
    /\ last.elem \in Elems
    /\ elements[last.arr][last.len0 + 1] = last.elem

\* C10: insert puts the object at the index (at the end for an index below
\* zero or above the length), moves the elements from there on one slot to
\* the right in their order, grows the length by one and changes no count
\* but the new object's, which gains one.
C10_Step ==
    last'.op = "insert" =>
        LET a == last'.arr
            i == last'.idx
            e == last'.elem
            len == numUsed[a]
            pos == IF i < 0 \/ i > len THEN len ELSE i
        IN /\ numUsed'[a] = len + 1
           /\ UsedNext(a) = SubSeq(Used(a), 1, pos) \o <<e>>
                            \o SubSeq(Used(a), pos + 1, len)
           /\ \A o \in Elems : refCount'[o] = refCount[o] + One(o = e)
           /\ deleted' = deleted /\ life' = life

C10_Insert == [][C10_Step]_vars

\* an insert between two different elements
C10_Witness ==
    /\ last.op = "insert"
    /\ last.idx = 1 /\ last.len0 = 2
    /\ numUsed[last.arr] = 3
    /\ last.elem \in Elems
    /\ elements[last.arr][2] = last.elem
    /\ elements[last.arr][1] # elements[last.arr][3]

\* C11: an index out of range is no error and changes nothing: remove and
\* removeAndReturn with index < 0 or >= length, swap with either index out
\* of range, move with a source index out of range and set with a negative
\* index leave length, contents, capacity and every count as they were;
\* operator[] out of range, and getFirst and getLast on an empty array,
\* return a null handle and leave every count as it was.
OutOfRange(i, a) == i < 0 \/ i >= numUsed[a]

C11_Step ==
    LET a == last'.arr
        i == last'.idx
        j == last'.n
    IN /\ (last'.op \in {"remove", "removeAndReturn", "move"} /\ OutOfRange(i, a))
             => (Frame /\ last'.elem = Null)
       /\ (last'.op = "swap" /\ (OutOfRange(i, a) \/ OutOfRange(j, a))) => Frame
       /\ (last'.op = "set" /\ i < 0) => Frame
       /\ (last'.op = "operatorIndex" /\ OutOfRange(i, a))
             => (Frame /\ last'.elem = Null)
       /\ (last'.op \in {"getFirst", "getLast"} /\ numUsed[a] = 0)
             => (Frame /\ last'.elem = Null)

C11_OutOfRangeIsNoOp == [][C11_Step]_vars

\* a swap whose second index is past the end has left two different
\* elements where they were
C11_Witness ==
    /\ last.op = "swap"
    /\ last.idx = 0 /\ last.n = MaxLen
    /\ numUsed[last.arr] = 2
    /\ elements[last.arr][1] # elements[last.arr][2]

\* C12: removeRange(start, count) removes exactly the slots whose index is
\* in [max(0, start), min(length, start + count)): what is left is the
\* elements before the range followed by those after it, in their order,
\* and every object loses one count per slot it had in the range; an empty
\* range changes nothing, and a range from below zero to past the end
\* leaves length 0.
C12_Step ==
    last'.op = "removeRange" =>
        LET a   == last'.arr
            len == numUsed[a]
            lo  == Max(0, last'.idx)
            hi  == Min(len, last'.idx + last'.n)
        IN /\ ~ub'
           /\ IF hi > lo
              THEN /\ numUsed'[a] = len - (hi - lo)
                   /\ UsedNext(a) = SubSeq(Used(a), 1, lo)
                                    \o SubSeq(Used(a), hi + 1, len)
                   /\ \A o \in Elems :
                         /\ refCount'[o] = refCount[o]
                               - Count(o, SubSeq(Used(a), lo + 1, hi))
                         /\ deleted'[o] = deleted[o]
                               + One(refCount'[o] = 0 /\ refCount[o] > 0)
                   /\ held' = held
              ELSE Frame
           /\ (last'.idx < 0 /\ last'.idx + last'.n > len) => numUsed'[a] = 0

C12_RemoveRange == [][C12_Step]_vars

\* the middle one of three slots has been removed from between two
\* different elements
C12_Witness ==
    /\ last.op = "removeRange"
    /\ last.idx = 1 /\ last.n = 1 /\ last.len0 = 3
    /\ numUsed[last.arr] = 2
    /\ elements[last.arr][1] # elements[last.arr][2]

\* C13: move(from, to) with from in range gives the sequence with the
\* element taken out of position from and put back at position to, a to
\* below zero or at or above the length standing for length - 1: the
\* elements between the two positions shift by one slot, all others stay,
\* length, capacity and every count are unchanged; move(from, from) changes
\* nothing; move(2, 4) on six elements e0..e5 gives e0 e1 e3 e4 e2 e5.
TakeOut(s, i) == SubSeq(s, 1, i) \o SubSeq(s, i + 2, Len(s))

PutIn(s, i, v) == SubSeq(s, 1, i) \o <<v>> \o SubSeq(s, i + 1, Len(s))

C13_Step ==
    (last'.op = "move" /\ ~OutOfRange(last'.idx, last'.arr)) =>
        LET a    == last'.arr
            from == last'.idx
            len  == numUsed[a]
            to   == IF last'.n < 0 \/ last'.n >= len THEN len - 1 ELSE last'.n
            old  == Used(a)
            new  == UsedNext(a)
        IN /\ ~ub'
           /\ new = PutIn(TakeOut(old, from), to, old[from + 1])
           /\ \A k \in 0..(len - 1) :
                 new[k + 1] = IF k = to THEN old[from + 1]
                              ELSE IF from <= k /\ k < to THEN old[k + 2]
                              ELSE IF to < k /\ k <= from THEN old[k]
                              ELSE old[k + 1]
           /\ Len(elements'[a]) = Len(elements[a])
           /\ numUsed' = numUsed /\ refCount' = refCount
           /\ deleted' = deleted /\ life' = life /\ held' = held
           /\ from = last'.n => Frame
           /\ (len = 6 /\ from = 2 /\ last'.n = 4) =>
                 new = <<old[1], old[2], old[4], old[5], old[3], old[6]>>

C13_Move == [][C13_Step]_vars

\* move (2, 4) on six slots has carried an element over two others that
\* differ from it
C13_Witness ==
    /\ last.op = "move"
    /\ last.idx = 2 /\ last.n = 4 /\ numUsed[last.arr] = 6
    /\ elements[last.arr][5] # elements[last.arr][3]
    /\ elements[last.arr][5] # elements[last.arr][4]
    /\ elements[last.arr][3] # elements[last.arr][4]

\* C14: A.swapWith(B) exchanges the contents, lengths and capacities of A
\* and B, changes no count and destroys nothing; a second swapWith puts both
\* arrays back exactly.
C14_Step ==
    last'.op = "swapWith" =>
        LET a     == last'.arr
            other == last'.other
            back  == swapWith(World', a, other)
        IN /\ ~ub'
           /\ UsedNext(a) = Used(other) /\ UsedNext(other) = Used(a)
           /\ numUsed'[a] = numUsed[other] /\ numUsed'[other] = numUsed[a]
           /\ Len(elements'[a]) = Len(elements[other])
           /\ Len(elements'[other]) = Len(elements[a])
           /\ refCount' = refCount /\ deleted' = deleted
           /\ life' = life /\ held' = held /\ exists' = exists
           /\ \A y \in Arrays :
                 /\ back.elements[y] = elements[y]
                 /\ back.numUsed[y] = numUsed[y]
           /\ back.refCount = refCount /\ back.deleted = deleted

C14_SwapWith == [][C14_Step]_vars

\* two arrays of different lengths and capacities have been exchanged
C14_Witness ==
    /\ last.op = "swapWith"
    /\ last.arr # last.other
    /\ numUsed[last.arr] = 1 /\ numUsed[last.other] = 3
    /\ Len(elements[last.arr]) # Len(elements[last.other])

\* the same sortedness after the step
IsSortedNext(a, cmp) ==
    \A k \in 1..(numUsed'[a] - 1) :
        compareElements(cmp, elements'[a][k], elements'[a][k + 1]) <= 0

\* C15: an addSorted on an array sorted under the comparator (the empty
\* array is) leaves it sorted under that comparator, compare(element[i],
\* element[i+1]) <= 0 for every adjacent pair, one slot longer, and returns
\* the index at which the new element now sits; so it is after any number
\* of addSorted calls that start from an empty array.
C15_Step ==
    last'.op = "addSorted" =>
        LET a == last'.arr
            e == last'.elem
            r == last'.result
        IN /\ ~ub'
           /\ IsSortedNext(a, last'.cmp)
           /\ numUsed'[a] = numUsed[a] + 1
           /\ 0 <= r /\ r <= numUsed[a]
           /\ elements'[a][r + 1] = e
           /\ UsedNext(a) = PutIn(Used(a), r, e)
           /\ \A o \in Elems : refCount'[o] = refCount[o] + One(o = e)

C15_AddSortedKeepsOrder == [][C15_Step]_vars

\* addSorted has put an object in front of a greater one, behind another
C15_Witness ==
    /\ last.op = "addSorted"
    /\ numUsed[last.arr] = 3
    /\ last.result \in {0, 1}
    /\ compareElements(last.cmp, last.elem, elements[last.arr][3]) < 0

\* the indexes at which an element compares equal to x
EqualAt(a, cmp, x) ==
    {k \in 0..(numUsed[a] - 1) : compareElements(cmp, x, elements[a][k + 1]) = 0}

\* C16: on an array sorted under the comparator, indexOfSorted returns an
\* index whose element compares equal to x when there is one, and -1 exactly
\* when there is none, for every length from 0 on and with elements that
\* compare equal to each other.
C16_Step ==
    last'.op = "indexOfSorted" =>
        LET a == last'.arr
            r == last'.result
            found == EqualAt(a, last'.cmp, last'.elem)
        IN /\ Frame
           /\ (r = -1) <=> (found = {})
           /\ (r # -1) => r \in found

C16_IndexOfSorted == [][C16_Step]_vars

\* indexOfSorted has found the last of three elements, behind two that
\* compare equal to each other
C16_Witness ==
    /\ last.op = "indexOfSorted"
    /\ numUsed[last.arr] = 3
    /\ last.result = 2
    /\ compareElements(last.cmp, elements[last.arr][1], elements[last.arr][2]) = 0

NoEqualPair(s, cmp) ==
    \A i, j \in 1..Len(s) : i # j => compareElements(cmp, s[i], s[j]) # 0

\* C17: addOrReplaceSorted on a sorted array without comparator-equal
\* elements keeps it sorted and without such elements: with an equal element
\* present, that slot is overwritten through set (same length, the old
\* occupant released once, the new object one count more); otherwise the
\* object is inserted and the length grows by one.
C17_Step ==
    (/\ last'.op = "addOrReplaceSorted"
     /\ NoEqualPair(Used(last'.arr), last'.cmp)) =>
        LET a   == last'.arr
            e   == last'.elem
            cmp == last'.cmp
            eq  == EqualAt(a, cmp, e)
        IN /\ ~ub'
           /\ IsSortedNext(a, cmp)
           /\ NoEqualPair(UsedNext(a), cmp)
           /\ IF eq # {}
              THEN \E k \in eq :
                     LET prev == elements[a][k + 1] IN
                     /\ numUsed'[a] = numUsed[a]
                     /\ UsedNext(a) = [Used(a) EXCEPT ![k + 1] = e]
                     /\ \A o \in Elems :
                           /\ refCount'[o] = refCount[o] + One(o = e)
                                                - One(o = prev)
                           /\ deleted'[o] = deleted[o]
                                 + One(o = prev /\ refCount'[o] = 0)
              ELSE /\ numUsed'[a] = numUsed[a] + 1
                   /\ \E pos \in 0..numUsed[a] :
                         UsedNext(a) = PutIn(Used(a), pos, e)
                   /\ \A o \in Elems : refCount'[o] = refCount[o] + One(o = e)
                   /\ deleted' = deleted

C17_AddOrReplaceSorted == [][C17_Step]_vars

\* addOrReplaceSorted has put an object in the place of another one that
\* compares equal to it, and that one was destroyed
C17_Witness ==
    /\ last.op = "addOrReplaceSorted"
    /\ numUsed[last.arr] = last.len0
    /\ last.destroyed # {}
    /\ last.elem \notin last.destroyed

\* C18: with the locking policy active, calls that two callers make on the
\* same array at the same time never interleave, and no caller sees
\* another caller's call partially applied: at most one caller is inside a
\* call, and whenever no call is running the array holds one slot per
\* completed add and every object's count is the number of its slots.
C18_CallsDoNotInterleave ==
    /\ Cardinality({t \in Callers : running[t].pc # "idle"}) <= 1
    /\ (\A t \in Callers : running[t].pc = "idle") =>
          /\ ~ub
          /\ \A k \in 1..numUsed["A"] : elements["A"][k] # Junk
          /\ \A o \in Elems : refCount[o] = Slots(o)

\* C19: clear and clearQuick release every occupant once and leave length
\* 0; clear leaves capacity 0, clearQuick leaves the capacity as it was.
C19_Step ==
    last'.op \in {"clear", "clearQuick"} =>
        LET a == last'.arr IN
        /\ ~ub'
        /\ numUsed'[a] = 0
        /\ \A o \in Elems :
              /\ refCount'[o] = refCount[o] - Count(o, Used(a))
              /\ deleted'[o] = deleted[o]
                    + One(Count(o, Used(a)) > 0 /\ refCount'[o] = 0)
        /\ held' = held
        /\ last'.op = "clear" => Len(elements'[a]) = 0
        /\ last'.op = "clearQuick" => Len(elements'[a]) = Len(elements[a])

C19_ClearAndClearQuick == [][C19_Step]_vars

\* clearQuick has emptied an array of two slots, destroyed an object and
\* kept the store
C19_Witness ==
    /\ last.op = "clearQuick"
    /\ last.len0 = 2
    /\ last.destroyed # {}
    /\ numUsed[last.arr] = 0
    /\ Len(elements[last.arr]) >= 2

\* C20: after a remove, removeAndReturn or removeRange that removed a slot
\* capacity <= 2 * length: a new length below half the capacity shrinks the
\* store to exactly the length (to 0 with the last element), otherwise the
\* capacity stays; add, insert, set, addArray, swap, move and clearQuick
\* never reduce the capacity.
C20_Step ==
    LET a    == last'.arr
        cap  == Len(elements[a])
        cap1 == Len(elements'[a])
        len1 == numUsed'[a]
    IN /\ (/\ last'.op \in {"remove", "removeAndReturn", "removeRange"}
           /\ len1 < numUsed[a]) =>
             /\ cap1 <= 2 * len1
             /\ cap1 = IF 2 * len1 < cap THEN len1 ELSE cap
             /\ len1 = 0 => cap1 = 0
       /\ last'.op \in {"add", "insert", "set", "addArray", "swap", "move",
                         "clearQuick"} => cap1 >= cap

C20_CapacityAfterRemoval == [][C20_Step]_vars

\* a remove has taken the second of two slots out of a store of more than
\* two and the store has shrunk to the one slot left
C20_Witness ==
    /\ last.op = "remove"
    /\ last.len0 = 2
    /\ numUsed[last.arr] = 1
    /\ Len(elements[last.arr]) = 1

\* no handle, null included, is in more than one slot of the sequence
NoDuplicate(s) == \A j, k \in 1..Len(s) : s[j] = s[k] => j = k

\* C21: addIfNotAlreadyThere appends the handle, counts it once and returns
\* true exactly when no slot of the array holds that handle, and otherwise
\* changes nothing and returns false; so an array without duplicates (the
\* empty one to begin with) stays without duplicates, null included, and no
\* object is in more than one of its slots.
C21_Step ==
    last'.op = "addIfNotAlreadyThere" =>
        LET a == last'.arr
            e == last'.elem
        IN /\ IF \A k \in 1..numUsed[a] : elements[a][k] # e
              THEN /\ last'.result = 1
                   /\ UsedNext(a) = Append(Used(a), e)
                   /\ \A o \in Elems : refCount'[o] = refCount[o] + One(o = e)
                   /\ \A b \in Arrays \ {a} : UsedNext(b) = Used(b)
                   /\ deleted' = deleted
              ELSE /\ last'.result = 0
                   /\ Frame
           /\ NoDuplicate(Used(a)) =>
                 /\ NoDuplicate(UsedNext(a))
                 /\ \A o \in Elems : Count(o, UsedNext(a)) <= 1

C21_AddIfNotAlreadyThere == [][C21_Step]_vars

\* a handle the array already holds was refused, and the array holds three
\* different handles, nullptr among them
C21_Witness ==
    /\ last.op = "addIfNotAlreadyThere"
    /\ last.result = 0
    /\ numUsed[last.arr] = 3
    /\ NoDuplicate(Used(last.arr))
    /\ \E k \in 1..3 : elements[last.arr][k] = Null

\* C22: addArray appends, in order, the source's elements from startIndex
\* (zero when it is negative) up to startIndex + count or the source's end,
\* whichever is less; up to the end when count is negative; nothing when
\* startIndex is at or past the end. Every appended object gains one count,
\* the source and the target's earlier elements stay, nothing is destroyed;
\* with the array itself as the source the call appends a copy of the range
\* of the contents it had.
C22_Step ==
    last'.op = "addArray" =>
        LET a   == last'.arr
            src == last'.other
            lo  == Max(0, last'.idx)
            hi  == IF last'.n < 0 THEN numUsed[src]
                   ELSE Min(numUsed[src], lo + last'.n)
            sel == IF lo < hi THEN SubSeq(Used(src), lo + 1, hi) ELSE <<>>
        IN /\ ~ub'
           /\ UsedNext(a) = Used(a) \o sel
           /\ \A b \in Arrays \ {a} : UsedNext(b) = Used(b)
           /\ \A o \in Elems : refCount'[o] = refCount[o] + Count(o, sel)
           /\ deleted' = deleted /\ life' = life /\ held' = held
           /\ exists' = exists

C22_AddArray == [][C22_Step]_vars

\* an array of two different elements has been handed to itself with
\* startIndex 1 and no count: it gained a copy of its second element
C22_Witness ==
    /\ last.op = "addArray"
    /\ last.other = last.arr
    /\ last.idx = 1 /\ last.n < 0
    /\ last.len0 = 2
    /\ numUsed[last.arr] = 3
    /\ elements[last.arr][1] # elements[last.arr][2]
    /\ elements[last.arr][3] = elements[last.arr][2]
    /\ elements[last.arr][2] \in Elems

\* the index of the first slot of the sequence that holds the handle, or 0
FirstAt(s, e) ==
    IF \E k \in 1..Len(s) : s[k] = e
    THEN CHOOSE k \in 1..Len(s) : s[k] = e /\ \A j \in 1..(k - 1) : s[j] # e
    ELSE 0

\* C23: removeObject takes out the first slot that holds the handle, and
\* only that one: the later occurrences and the order of the other elements
\* stay, the object loses one count (and is destroyed when that was its
\* last); when no slot holds the handle nothing changes.
C23_Step ==
    last'.op = "removeObject" =>
        LET a == last'.arr
            e == last'.elem
            k == FirstAt(Used(a), e)
        IN /\ ~ub'
           /\ IF k = 0 THEN Frame
              ELSE /\ UsedNext(a) = TakeOut(Used(a), k - 1)
                   /\ \A b \in Arrays \ {a} : UsedNext(b) = Used(b)
                   /\ \A o \in Elems :
                         /\ refCount'[o] = refCount[o] - One(o = e)
                         /\ deleted'[o] = deleted[o]
                               + One(o = e /\ refCount'[o] = 0)
                   /\ held' = held

C23_RemoveObject == [][C23_Step]_vars

\* the first of two slots holding the same object was removed from in front
\* of another element; the later occurrence is still there
C23_Witness ==
    /\ last.op = "removeObject"
    /\ last.elem \in Elems
    /\ last.len0 = 3
    /\ numUsed[last.arr] = 2
    /\ elements[last.arr][2] = last.elem
    /\ elements[last.arr][1] # last.elem
    /\ refCount[last.elem] = 1

\* C24: operator== answers true exactly when the two arrays have the same
\* length and the same handle in every slot (two different objects are never
\* equal handles), and operator!= the opposite; neither changes a count or an
\* array. Every array equals itself, a == b and b == a agree, and an array
\* just copied equals its source.
C24_Step ==
    /\ last'.op \in {"operator==", "operator!="} =>
          LET a    == last'.arr
              b    == last'.other
              same == /\ numUsed[a] = numUsed[b]
                      /\ \A k \in 1..numUsed[a] : elements[a][k] = elements[b][k]
          IN /\ Frame
             /\ last'.result = One(same = (last'.op = "operator=="))
    /\ \A a \in Arrays, b \in Arrays :
          exists[a] /\ exists[b] /\ ~ub =>
              /\ operatorEquals(World, a, a)
              /\ operatorEquals(World, a, b) = operatorEquals(World, b, a)
              /\ operatorNotEquals(World, a, b) = ~operatorEquals(World, a, b)
    /\ last.op = "CopyConstructor" =>
          operatorEquals(World, last.arr, last.other)

C24_Equality == [][C24_Step]_vars

\* two arrays of the same length that hold the same two objects in a
\* different order have compared unequal
C24_Witness ==
    /\ last.op = "operator=="
    /\ last.result = 0
    /\ last.arr # last.other
    /\ numUsed["A"] = 2 /\ numUsed["B"] = 2
    /\ elements["A"][1] = elements["B"][2]
    /\ elements["A"][2] = elements["B"][1]
    /\ elements["A"][1] # elements["A"][2]
    /\ elements["A"][1] \in Elems /\ elements["A"][2] \in Elems

\* C27: set with an index in range whose slot already holds the very object
\* handed in does not destroy it, also when the array holds its only
\* reference: the object's count, the array and everything else are as
\* before.
C27_Step ==
    (/\ last'.op = "set"
     /\ last'.idx >= 0 /\ last'.idx < numUsed[last'.arr]
     /\ last'.elem \in Elems
     /\ elements[last'.arr][last'.idx + 1] = last'.elem)
    => /\ Frame
       /\ ~ub'
       /\ life'[last'.elem] = "alive"
       /\ last'.destroyed = {}

C27_SetSameElement == [][C27_Step]_vars

\* set has put an object into the slot that held it, the only reference to
\* it anywhere
C27_Witness ==
    /\ last.op = "set"
    /\ last.elem \in Elems
    /\ last.prev = last.elem
    /\ last.idx >= 0 /\ last.idx < numUsed[last.arr]
    /\ elements[last.arr][last.idx + 1] = last.elem
    /\ Slots(last.elem) = 1
    /\ refCount[last.elem] = 1 /\ held[last.elem] = 0
    /\ life[last.elem] = "alive"

\* C25: when remove, removeAndReturn or set destroys an element, the array
\* holds that element in no slot below size() at the time its destructor
\* starts.
C25_UnlinkedBeforeDestroyed ==
    last.op \in {"remove", "removeAndReturn", "set"} =>
        \A o \in Elems : <<last.arr, o>> \notin last.caught

\* C26: when removeRange destroys an element of the range, the slot that
\* held it is null already, so that the array holds the element in no slot
\* at the time its destructor starts.
C26_NulledBeforeDestroyed ==
    last.op = "removeRange" =>
        \A o \in Elems : <<last.arr, o>> \notin last.caught

\* the array and the counts agree: what C5 asks of every state
Consistent ==
    /\ ~ub
    /\ \A a \in Arrays : 0 <= numUsed[a] /\ numUsed[a] <= Len(elements[a])
    /\ \A o \in Elems :
          /\ life[o] = "alive" => refCount[o] = Slots(o) + held[o]
          /\ life[o] = "dead" => (refCount[o] = 0 /\ Slots(o) = 0)

\* C28: clear, clearQuick and the array's destructor lower the length before
\* they release an element, so that no slot below size() holds an element
\* when its destructor starts; when the destructors call clear or clearQuick
\* on the array (or nothing), every element the array held is released once
\* per slot and no more, each is destroyed at most once, and the outer call
\* returns with size() == 0.
C28_Step ==
    (/\ Consistent
     /\ last'.op \in {"clear", "clearQuick", "Destructor"}
     /\ last'.cb.op \in {"none", "clear", "clearQuick"})
    => LET a == last'.arr IN
       /\ ~ub'
       /\ numUsed'[a] = 0
       /\ \A o \in Elems :
             /\ refCount'[o] = refCount[o] - Count(o, Used(a))
             /\ deleted'[o] = deleted[o] + One(refCount'[o] = 0 /\ refCount[o] > 0)
             /\ deleted'[o] <= 1
             /\ <<a, o>> \notin last'.caught

C28_ReleaseAllReentrant == [][C28_Step]_vars

\* clear on an array of three slots has destroyed both objects, and their
\* destructors called clear on the array
C28_Witness ==
    /\ last.op = "clear"
    /\ last.cb.op = "clear"
    /\ last.len0 = 3
    /\ last.destroyed = Elems
    /\ numUsed[last.arr] = 0
    /\ ~ub

\* C29: whatever the comparator answers and whatever the array holds,
\* indexOfSorted ends after at most one round of its loop per slot, each
\* round narrowing [s, e); it reads only slots at indices in [0, length),
\* returns -1 or an index in [0, length), and leaves the array, its length
\* and every count as they were.
C29_Step ==
    last'.op = "indexOfSorted" =>
        LET a   == last'.arr
            len == numUsed[a]
            t   == last'.trace
        IN /\ Frame
           /\ t.shrinks
           /\ t.steps <= len
           /\ t.reads \subseteq 0..(len - 1)
           /\ last'.result = -1 \/ last'.result \in 0..(len - 1)

C29_IndexOfSortedAnyComparator == [][C29_Step]_vars

\* a search with a comparator that calls an object unequal to itself and
\* gives the same answer for the two orders of a pair went through all three
\* rounds on an unsorted array with a null slot, and found nothing
C29_Witness ==
    /\ last.op = "indexOfSorted"
    /\ last.elem \in Elems
    /\ numUsed["A"] = 3
    /\ last.trace.steps = 3
    /\ last.trace.reads = {0, 1, 2}
    /\ last.result = -1
    /\ \E k \in 1..3 : elements["A"][k] = Null
    /\ \E k \in 1..3 : elements["A"][k] = last.elem
    /\ last.any.table[<<last.elem, last.elem>>] # 0
    /\ \E o \in Elems \ {last.elem} :
          /\ last.any.table[<<o, last.elem>>] # 0
          /\ last.any.table[<<o, last.elem>>] = last.any.table[<<last.elem, o>>]

\* C5: when a destructor run by remove, removeAndReturn, set, removeRange,
\* removeLast, clear, clearQuick or the array's destructor calls back into
\* the array, the outer call still returns with no object released more
\* often than the slots it left, none leaked, and 0 <= length <= capacity.
C5_ReentrantSafe ==
    /\ ~ub
    /\ \A a \in Arrays : 0 <= numUsed[a] /\ numUsed[a] <= Len(elements[a])
    /\ \A o \in Elems :
          /\ deleted[o] <= 1
          /\ life[o] = "alive" => refCount[o] = Slots(o) + held[o]
          /\ life[o] = "dead" => (refCount[o] = 0 /\ Slots(o) = 0)

====
